---- MODULE Spec2Model ----
(***************************************************************************)
(* The asynchronous job lifecycle of the Clinical Summarizer Agent:        *)
(*   app/main.py    submit_job, get_result          (the HTTP handlers)     *)
(*   app/queue.py   enqueue_job, get_job_status, update_job_status          *)
(*   app/worker.py  process_clinical_job            (run by the RQ worker)  *)
(* Redis is the shared state: one hash job:<id> and one string result:<id> *)
(* per job, each with an optional expiry, and the RQ list clinical_jobs.   *)
(* Every Redis command is one atomic step; the handlers interleave between *)
(* their commands.  Time is counted in hours.                              *)
(***************************************************************************)
EXTENDS Integers, Sequences, FiniteSets, TLC

\* ------------------------------------------------------------------ bounds
NumJobIds == 2      \* how many distinct values uuid4 takes in a run
NumWorkers == 2     \* RQ workers listening on clinical_jobs
MaxTicks == 2       \* how many times the clock steps in a run

\* ------------------------------------------------------- program constants
TTL_HOURS == 24     \* timedelta(hours=24), job:<id> and result:<id>
JOB_TIMEOUT == 300  \* job_timeout=300, seconds, given to job_queue.enqueue

TickHours == TTL_HOURS \div 2   \* one step of the clock
JobIds == 1 .. NumJobIds
Workers == 1 .. NumWorkers

\* str | None of the form fields; "" and None are both falsy in Python
Texts == {"None", "", "patient reports headache"}
AudioFiles == {"None", "visit.wav"}
truthy(s) == s # "None" /\ s # ""
or_empty(s) == IF truthy(s) THEN s ELSE ""

\* what whisper returns for an audio file (it may hear nothing)
Transcripts == {"", "transcribed speech"}
\* the message of an exception raised by a collaborator
ErrorMessages == {"model unavailable"}

\* The value process_clinical_text returns, as model_dump() gives it.
\* ClinicalSummary.created_at is a datetime, and model_dump() keeps it one;
\* a substituted collaborator can hand back a dump whose created_at is
\* already an ISO string.
Summaries ==
    { [narrative_summary |-> "headache, 3 days", created_at |-> k] :
        k \in {"datetime", "isostring"} }

\* json.dumps raises TypeError on a datetime value
json_serializable(d) == d.created_at # "datetime"
\* json.dumps / json.loads: the text form of the dict, and its parse
json_dumps(d) == <<"narrative_summary", d.narrative_summary, "created_at", d.created_at>>
json_loads(s) == [narrative_summary |-> s[2], created_at |-> s[4]]

\* --------------------------------------------------------------- the state
VARIABLES
    now,        \* the clock, in hours
    job,        \* job[id]: the Redis hash job:<id>
    result,     \* result[id]: the Redis string result:<id>
    queue,      \* the RQ queue clinical_jobs: job ids, oldest first
    sub,        \* the submit_job request in progress
    rd,         \* the get_result request in progress
    wk,         \* wk[w]: worker w's position in process_clinical_job
    generated,  \* how often uuid4 has returned each value
    issued,     \* how often submit_job has returned each job id
    runs,       \* how often process_clinical_job was started for each id
    term_writes,\* how many completed/failed status writes each id received
    rq_failed,  \* the job ids whose process_clinical_job raised to RQ
    infer_calls \* how many times process_clinical_text was called for each id

vars == <<now, job, result, queue, sub, rd, wk, generated, issued, runs,
          term_writes, rq_failed, infer_calls>>

\* a key that does not exist
NoJob ==
    [exists |-> FALSE, job_id |-> 0, status |-> "none", created_at |-> <<>>,
     text |-> "", audio_filename |-> "", audio_url |-> "",
     error |-> <<>>, completed_at |-> <<>>, ttl |-> <<>>]
NoResult == [exists |-> FALSE, value |-> <<>>, ttl |-> <<>>]

\* ---------------------------------------------------------- Redis commands
\* HSET key field value: creates the key (with no expiry) when it is absent,
\* keeps the expiry of an existing key
\* a write that replaces the whole hash by the one field
hset_replace(h, id, f, v) ==
    [h EXCEPT ![id] = [NoJob EXCEPT ![f] = v, !.exists = TRUE, !.ttl = h[id].ttl]]
\* a write that drops the key's expiry, as SET does
hset_persist(h, id, f, v) ==
    [h EXCEPT ![id] = [@ EXCEPT ![f] = v, !.exists = TRUE, !.ttl = <<>>]]
hset(h, id, f, v) == [h EXCEPT ![id] = [@ EXCEPT ![f] = v, !.exists = TRUE]]
\* EXPIRE key ttl
expire(h, id, t) == IF h[id].exists THEN [h EXCEPT ![id] = [@ EXCEPT !.ttl = <<t>>]] ELSE h
\* SETEX key ttl value
\* SET key value, with no expiry
setex_no_ttl(r, id, t, v) ==
    [r EXCEPT ![id] = [exists |-> TRUE, value |-> <<v>>, ttl |-> <<>>]]
setex(r, id, t, v) == [r EXCEPT ![id] = [exists |-> TRUE, value |-> <<v>>, ttl |-> <<t>>]]
\* a key whose expiry has been reached at time t is gone
Expired(k, t) == k.exists /\ k.ttl # <<>> /\ k.ttl[1] <= t

\* ------------------------------------------------------------ app/queue.py
\* uuid4 under its uniqueness assumption: a value never returned before
\* (ids are numbered in the order they are generated)
FreshIds ==
    { id \in JobIds : generated[id] = 0 /\ \A j \in JobIds : j < id => generated[j] > 0 }
\* uuid4 without that assumption: a value it returned before, or a new one;
\* NumJobIds draws in a run
RECURSIVE SumTo(_, _)
SumTo(f, n) == IF n = 0 THEN 0 ELSE f[n] + SumTo(f, n - 1)
AnyIds ==
    IF SumTo(generated, NumJobIds) < NumJobIds
      THEN { id \in JobIds : generated[id] > 0 } \cup FreshIds
      ELSE {}

\* enqueue_job storing the record as already taken by a worker
job_metadata_processing(id, job_data, t) ==
    [job_id |-> id, status |-> "processing", created_at |-> <<t>>,
     text |-> or_empty(job_data.text),
     audio_filename |-> or_empty(job_data.audio_filename),
     audio_url |-> or_empty(job_data.audio_url)]

\* the hash enqueue_job writes
job_metadata(id, job_data, t) ==
    [job_id |-> id, status |-> "pending", created_at |-> <<t>>,
     text |-> or_empty(job_data.text),
     audio_filename |-> or_empty(job_data.audio_filename),
     audio_url |-> or_empty(job_data.audio_url)]

\* HSET key mapping=...: sets the six fields, leaves every other field and
\* the expiry of an existing key as they are
hset_mapping(h, id, m) ==
    [h EXCEPT ![id] = [@ EXCEPT !.exists = TRUE, !.job_id = m.job_id,
                                !.status = m.status, !.created_at = m.created_at,
                                !.text = m.text, !.audio_filename = m.audio_filename,
                                !.audio_url = m.audio_url]]

\* what get_job_status returns when not found
NotFound ==
    [found |-> FALSE, job_id |-> 0, status |-> "none", created_at |-> <<>>,
     completed_at |-> <<>>, error |-> <<>>, text |-> "", audio_filename |-> "",
     clinical_summary |-> <<>>]
\* the dict get_job_status returns from the hash d and the result cs it read
JobData(d, cs) ==
    [found |-> TRUE, job_id |-> d.job_id, status |-> d.status,
     created_at |-> d.created_at, completed_at |-> d.completed_at,
     error |-> d.error, text |-> d.text, audio_filename |-> d.audio_filename,
     clinical_summary |-> cs]
\* GET result:<id> followed by json.loads, when the key holds a value
read_result(r, id) ==
    IF r[id].exists THEN <<json_loads(r[id].value[1])>> ELSE <<>>
\* get_job_status run without interruption on the stores h, r
get_job_status(h, r, id) ==
    IF ~h[id].exists THEN NotFound
    ELSE JobData(h[id], IF h[id].status = "completed" THEN read_result(r, id) ELSE <<>>)

\* ------------------------------------------------------------- app/main.py
\* the validation testing `text is None` where it tests `not text`
Rejected_none_only(text, audio) == text = "None" /\ audio = "None"
\* the validation asking for exactly one of text and audio
Rejected_unless_one(text, audio) == truthy(text) <=> audio # "None"

\* `if not text and not audio_file`: the 400 of submit_job
Rejected(text, audio) == ~truthy(text) /\ audio = "None"
\* the job_data dict submit_job builds
JobDataOf(text, audio) ==
    [text |-> IF truthy(text) THEN text ELSE "None",
     audio_filename |-> audio, audio_url |-> "None"]

IdleSub == [pc |-> "idle", text |-> "None", audio |-> "None", job_id |-> 0, resp |-> "none"]

\* POST /submit up to the first Redis command of enqueue_job: validation,
\* uuid4 drawn from ids, HSET job:<id>
SubmitJob(text, audio, ids) ==
    /\ sub.pc = "idle"
    /\ IF Rejected(text, audio)
         THEN /\ sub' = [IdleSub EXCEPT !.resp = "400"]
              /\ UNCHANGED <<job, generated>>
         ELSE \E id \in ids :
              /\ sub' = [pc |-> "expire", text |-> text, audio |-> audio,
                         job_id |-> id, resp |-> "none"]
              /\ job' = hset_mapping(job, id, job_metadata(id, JobDataOf(text, audio), now))
              /\ generated' = [generated EXCEPT ![id] = @ + 1]
    /\ UNCHANGED <<now, result, queue, rd, wk, issued, runs, term_writes, rq_failed, infer_calls>>

\* redis_client.expire(job_key, timedelta(hours=24))
EnqueueExpire ==
    /\ sub.pc = "expire"
    /\ job' = expire(job, sub.job_id, now + TTL_HOURS)
    /\ sub' = [sub EXCEPT !.pc = "enqueue"]
    /\ UNCHANGED <<now, result, queue, rd, wk, generated, issued, runs, term_writes, rq_failed, infer_calls>>

\* job_queue.enqueue(...), return job_id, and the JobResponse of submit_job
EnqueueTask ==
    /\ sub.pc = "enqueue"
    /\ queue' = Append(queue, sub.job_id)
    /\ sub' = [IdleSub EXCEPT !.resp = "200"]
    /\ issued' = [issued EXCEPT ![sub.job_id] = @ + 1]
    /\ UNCHANGED <<now, job, result, rd, wk, generated, runs, term_writes, rq_failed, infer_calls>>

\* redis_client.hset raises (Redis unreachable): nothing is written;
\* submit_job catches the exception and answers 500
EnqueueHsetRaises(text, audio) ==
    /\ sub.pc = "idle"
    /\ ~Rejected(text, audio)
    /\ sub' = [IdleSub EXCEPT !.resp = "500"]
    /\ UNCHANGED <<now, job, result, queue, rd, wk, generated, issued, runs, term_writes, rq_failed, infer_calls>>

\* redis_client.expire or job_queue.enqueue raises after the record was
\* written: enqueue_job has no except clause, submit_job answers 500
EnqueueRaises ==
    /\ sub.pc \in {"expire", "enqueue"}
    /\ sub' = [IdleSub EXCEPT !.resp = "500"]
    /\ UNCHANGED <<now, job, result, queue, rd, wk, generated, issued, runs, term_writes, rq_failed, infer_calls>>

\* ---------------------------------------------------------------- the clock
\* TickHours pass; Redis drops the keys whose expiry is reached.  The HTTP
\* handlers issue two or three Redis commands and return: no clock step
\* falls inside one.  A job can wait in the queue, or be in a worker's
\* hands, when its key expires.
Tick ==
    /\ now < MaxTicks * TickHours
    /\ sub.pc = "idle" /\ rd.pc = "idle"
    /\ now' = now + TickHours
    /\ job' = [id \in JobIds |-> IF Expired(job[id], now') THEN NoJob ELSE job[id]]
    /\ result' = [id \in JobIds |-> IF Expired(result[id], now') THEN NoResult ELSE result[id]]
    /\ UNCHANGED <<queue, sub, rd, wk, generated, issued, runs, term_writes, rq_failed, infer_calls>>

\* ----------------------------------------------------------- app/worker.py
IdleWorker ==
    [pc |-> "idle", job_id |-> 0, text |-> "", audio_filename |-> "",
     summary |-> <<>>, exc |-> ""]

\* an exception sends the run back to its collaborator calls
Raise_retry(w, e) == [wk EXCEPT ![w] = [@ EXCEPT !.pc = "resolve"]]
\* an exception with str(e) = e leaves the try block: the except clause runs
Raise(w, e) == [wk EXCEPT ![w] = [@ EXCEPT !.pc = "h_status", !.exc = e]]
Goto(w, pc) == [wk EXCEPT ![w] = [@ EXCEPT !.pc = pc]]

\* a message that leaves str(e) out
error_message_generic(e) == <<"Error procesando trabajo">>
\* f"Error procesando trabajo: {str(e)}\n{traceback.format_exc()}"
error_message(e) == <<"Error procesando trabajo: ", e, "Traceback (most recent call last)">>

\* a worker that takes the task off the queue and does not run it
Dequeue_drop(w) ==
    /\ wk[w].pc = "idle"
    /\ queue # <<>>
    /\ queue' = Tail(queue)
    /\ runs' = [runs EXCEPT ![Head(queue)] = @ + 1]
    /\ UNCHANGED <<now, job, result, sub, rd, wk, generated, issued, term_writes, rq_failed, infer_calls>>

\* The RQ worker pops the oldest task and calls process_clinical_job(job_id):
\* job_data = get_job_status(job_id); if not job_data: raise ValueError
Dequeue(w) ==
    /\ wk[w].pc = "idle"
    /\ queue # <<>>
    /\ LET id == Head(queue)
           d == get_job_status(job, result, id)
           started == [wk EXCEPT ![w] = [IdleWorker EXCEPT !.job_id = id]] IN
         wk' = IF d.found
                 THEN [started EXCEPT ![w] = [@ EXCEPT !.pc = "set_processing", !.text = d.text,
                                                       !.audio_filename = d.audio_filename]]
                 ELSE [started EXCEPT ![w] = [@ EXCEPT !.pc = "h_status",
                                                       !.exc = "Trabajo no encontrado"]]
    /\ queue' = Tail(queue)
    /\ runs' = [runs EXCEPT ![Head(queue)] = @ + 1]
    /\ UNCHANGED <<now, job, result, sub, rd, generated, issued, term_writes, rq_failed, infer_calls>>

\* update_job_status(job_id, "processing"): one HSET, result and error are None
SetProcessing(w) ==
    /\ wk[w].pc = "set_processing"
    /\ job' = hset(job, wk[w].job_id, "status", "processing")
    /\ wk' = Goto(w, "resolve")
    /\ UNCHANGED <<now, result, queue, sub, rd, generated, issued, runs, term_writes, rq_failed, infer_calls>>

\* without `if not text: raise ValueError`
ResolveText_unchecked(w) ==
    /\ wk[w].pc = "resolve"
    /\ \/ \E m \in ErrorMessages : wk' = Raise(w, m)
       \/ IF wk[w].audio_filename # "" /\ wk[w].text = ""
            THEN \E t \in Transcripts :
                   wk' = [wk EXCEPT ![w] = [@ EXCEPT !.pc = "infer", !.text = t]]
            ELSE wk' = Goto(w, "infer")
    /\ UNCHANGED <<now, job, result, queue, sub, rd, generated, issued, runs, term_writes, rq_failed, infer_calls>>

\* `if audio_filename:` in place of `if audio_filename and not text:`
ResolveText_audio_first(w) ==
    /\ wk[w].pc = "resolve"
    /\ \/ \E m \in ErrorMessages : wk' = Raise(w, m)
       \/ IF wk[w].audio_filename # ""
            THEN \E t \in Transcripts :
                   wk' = IF t # "" THEN [wk EXCEPT ![w] = [@ EXCEPT !.pc = "infer", !.text = t]]
                         ELSE Raise(w, "No se proporciono texto ni audio valido")
            ELSE wk' = IF wk[w].text # "" THEN Goto(w, "infer")
                       ELSE Raise(w, "No se proporciono texto ni audio valido")
    /\ UNCHANGED <<now, job, result, queue, sub, rd, generated, issued, runs, term_writes, rq_failed, infer_calls>>

\* agent = initialize_agent() (it raises when a model or the API key is
\* missing); text = job_data.get("text"); transcribe when there is audio and
\* no text (the call may raise); `if not text: raise ValueError`
ResolveText(w) ==
    /\ wk[w].pc = "resolve"
    /\ \/ \E m \in ErrorMessages : wk' = Raise(w, m)
       \/ IF wk[w].audio_filename # "" /\ wk[w].text = ""
            THEN \E t \in Transcripts :
                   wk' = IF t # "" THEN [wk EXCEPT ![w] = [@ EXCEPT !.pc = "infer", !.text = t]]
                         ELSE Raise(w, "No se proporciono texto ni audio valido")
            ELSE wk' = IF wk[w].text # "" THEN Goto(w, "infer")
                       ELSE Raise(w, "No se proporciono texto ni audio valido")
    /\ UNCHANGED <<now, job, result, queue, sub, rd, generated, issued, runs, term_writes, rq_failed, infer_calls>>

\* clinical_summary = agent.process_clinical_text(text); result_dict = its dump
Infer(w) ==
    /\ wk[w].pc = "infer"
    /\ \/ \E s \in Summaries :
            wk' = [wk EXCEPT ![w] = [@ EXCEPT !.pc = "c_status", !.summary = <<s>>]]
       \/ \E m \in ErrorMessages : wk' = Raise(w, m)
    /\ infer_calls' = [infer_calls EXCEPT ![wk[w].job_id] = @ + 1]
    /\ UNCHANGED <<now, job, result, queue, sub, rd, generated, issued, runs, term_writes, rq_failed>>

\* update_job_status(job_id, "completed", result=result_dict), first command:
\* redis_client.hset(job_key, "status", status)
CompletedStatus(w) ==
    /\ wk[w].pc = "c_status"
    /\ job' = hset(job, wk[w].job_id, "status", "completed")
    /\ term_writes' = [term_writes EXCEPT ![wk[w].job_id] = @ + 1]
    /\ wk' = Goto(w, "c_setex")
    /\ UNCHANGED <<now, result, queue, sub, rd, generated, issued, runs, rq_failed, infer_calls>>

\* `if result:` redis_client.setex(result_key, 24h, json.dumps(result));
\* json.dumps raises TypeError before SETEX is sent when it cannot encode
CompletedSetex(w) ==
    /\ wk[w].pc = "c_setex"
    /\ LET d == wk[w].summary[1] IN
         IF json_serializable(d)
           THEN /\ result' = setex(result, wk[w].job_id, now + TTL_HOURS, json_dumps(d))
                /\ wk' = Goto(w, "c_completed_at")
           ELSE /\ wk' = Raise(w, "Object of type datetime is not JSON serializable")
                /\ UNCHANGED result
    /\ UNCHANGED <<now, job, queue, sub, rd, generated, issued, runs, term_writes, rq_failed, infer_calls>>

\* redis_client.hset(job_key, "completed_at", now); error is None;
\* process_clinical_job returns result_dict
CompletedAt(w) ==
    /\ wk[w].pc = "c_completed_at"
    /\ job' = hset(job, wk[w].job_id, "completed_at", <<now>>)
    /\ wk' = [wk EXCEPT ![w] = IdleWorker]
    /\ UNCHANGED <<now, result, queue, sub, rd, generated, issued, runs, term_writes, rq_failed, infer_calls>>

\* except Exception: update_job_status(job_id, "failed", error=error_message),
\* first command: redis_client.hset(job_key, "status", status)
FailedStatus(w) ==
    /\ wk[w].pc = "h_status"
    /\ job' = hset(job, wk[w].job_id, "status", "failed")
    /\ term_writes' = [term_writes EXCEPT ![wk[w].job_id] = @ + 1]
    /\ wk' = Goto(w, "h_error")
    /\ UNCHANGED <<now, result, queue, sub, rd, generated, issued, runs, rq_failed, infer_calls>>

\* result is None; `if error:` redis_client.hset(job_key, "error", error)
FailedError(w) ==
    /\ wk[w].pc = "h_error"
    /\ job' = hset(job, wk[w].job_id, "error", error_message(wk[w].exc))
    /\ wk' = Goto(w, "h_completed_at")
    /\ UNCHANGED <<now, result, queue, sub, rd, generated, issued, runs, term_writes, rq_failed, infer_calls>>

\* the except clause ending without `raise`
FailedCompletedAt_swallow(w) ==
    /\ wk[w].pc = "h_completed_at"
    /\ job' = hset(job, wk[w].job_id, "completed_at", <<now>>)
    /\ wk' = [wk EXCEPT ![w] = IdleWorker]
    /\ UNCHANGED <<now, result, queue, sub, rd, generated, issued, runs, term_writes, rq_failed, infer_calls>>

\* redis_client.hset(job_key, "completed_at", now); then `raise`: RQ records
\* the failure and the worker takes the next task
FailedCompletedAt(w) ==
    /\ wk[w].pc = "h_completed_at"
    /\ job' = hset(job, wk[w].job_id, "completed_at", <<now>>)
    /\ wk' = [wk EXCEPT ![w] = IdleWorker]
    /\ rq_failed' = rq_failed \cup {wk[w].job_id}
    /\ UNCHANGED <<now, result, queue, sub, rd, generated, issued, runs, term_writes, infer_calls>>

\* the worker process crashing with its task put back on the queue
Crash_requeue(w) ==
    /\ wk[w].pc # "idle"
    /\ wk' = [wk EXCEPT ![w] = IdleWorker]
    /\ queue' = Append(queue, wk[w].job_id)
    /\ UNCHANGED <<now, job, result, sub, rd, generated, issued, runs, term_writes, rq_failed, infer_calls>>

\* The worker process dies inside process_clinical_job (kill, power loss):
\* the except clause does not run, the task is not put back on the queue,
\* and a restarted worker waits for the next task.
Crash(w) ==
    /\ wk[w].pc # "idle"
    /\ wk' = [wk EXCEPT ![w] = IdleWorker]
    /\ UNCHANGED <<now, job, result, queue, sub, rd, generated, issued, runs, term_writes, rq_failed, infer_calls>>

\* ------------------------------------------------- GET /result/{job_id}
\* rd.data: the hash get_job_status has read so far
IdleReader == [pc |-> "idle", job_id |-> 0, data |-> NotFound]

\* get_result without its 404 branch: the default of job_data.get answers
ResultResponse_no404(d) ==
    [d EXCEPT !.found = TRUE, !.text = "", !.audio_filename = "",
              !.status = IF @ = "none" THEN "pending" ELSE @,
              !.clinical_summary = IF d.status = "completed" THEN @ ELSE <<>>]

\* ResultResponse of get_result: job_data.get("status", "pending"), and
\* clinical_summary only with status completed; 404 when get_job_status
\* returned None or an empty dict
ResultResponse(d) ==
    IF ~d.found THEN NotFound
    ELSE [d EXCEPT !.text = "", !.audio_filename = "",
                   !.status = IF @ = "none" THEN "pending" ELSE @,
                   !.clinical_summary = IF d.status = "completed" THEN @ ELSE <<>>]

\* What the poll in progress answers: at hgetall the job_data it reads in
\* its next step, at get that job_data with the result it reads in its next
\* step.  (A poll that reads status completed at hgetall answers at get.)
PollAnswer ==
    IF rd.pc = "get"
      THEN ResultResponse([rd.data EXCEPT !.clinical_summary = read_result(result, rd.job_id)])
      ELSE IF rd.pc = "notfound" THEN ResultResponse(NotFound)
      ELSE ResultResponse(IF job[rd.job_id].exists THEN JobData(job[rd.job_id], <<>>)
                          ELSE NotFound)

\* get_job_status: `if not redis_client.exists(job_key): return None`
PollExists(id) ==
    /\ rd.pc = "idle"
    /\ rd' = IF job[id].exists THEN [IdleReader EXCEPT !.pc = "hgetall", !.job_id = id]
             ELSE [IdleReader EXCEPT !.pc = "notfound", !.job_id = id]
    /\ UNCHANGED <<now, job, result, queue, sub, wk, generated, issued, runs, term_writes, rq_failed, infer_calls>>

\* get_result: `if not job_data: raise HTTPException(status_code=404)`
PollNotFound ==
    /\ rd.pc = "notfound"
    /\ rd' = IdleReader
    /\ UNCHANGED <<now, job, result, queue, sub, wk, generated, issued, runs, term_writes, rq_failed, infer_calls>>

\* a read that renews the key's expiry
PollHgetall_refresh ==
    /\ rd.pc = "hgetall"
    /\ rd' = IF job[rd.job_id].exists /\ job[rd.job_id].status = "completed"
               THEN [rd EXCEPT !.pc = "get", !.data = JobData(job[rd.job_id], <<>>)]
               ELSE IdleReader
    /\ job' = expire(job, rd.job_id, now + TTL_HOURS)
    /\ UNCHANGED <<now, result, queue, sub, wk, generated, issued, runs, term_writes, rq_failed, infer_calls>>

\* job_data = redis_client.hgetall(job_key); returned as it is, and answered
\* by get_result, unless the status read is completed
PollHgetall ==
    /\ rd.pc = "hgetall"
    /\ rd' = IF job[rd.job_id].exists /\ job[rd.job_id].status = "completed"
               THEN [rd EXCEPT !.pc = "get", !.data = JobData(job[rd.job_id], <<>>)]
               ELSE IdleReader
    /\ UNCHANGED <<now, job, result, queue, sub, wk, generated, issued, runs, term_writes, rq_failed, infer_calls>>

\* result_data = redis_client.get(result_key); `if result_data:` json.loads;
\* get_result answers
PollGetResult ==
    /\ rd.pc = "get"
    /\ rd' = IdleReader
    /\ UNCHANGED <<now, job, result, queue, sub, wk, generated, issued, runs, term_writes, rq_failed, infer_calls>>

\* ------------------------------------------------------- the specifications
Init ==
    /\ now = 0
    /\ job = [id \in JobIds |-> NoJob]
    /\ result = [id \in JobIds |-> NoResult]
    /\ queue = <<>>
    /\ sub = IdleSub
    /\ rd = IdleReader
    /\ wk = [w \in Workers |-> IdleWorker]
    /\ generated = [id \in JobIds |-> 0]
    /\ issued = [id \in JobIds |-> 0]
    /\ runs = [id \in JobIds |-> 0]
    /\ term_writes = [id \in JobIds |-> 0]
    /\ rq_failed = {}
    /\ infer_calls = [id \in JobIds |-> 0]

Submit == \E text \in Texts, audio \in AudioFiles : SubmitJob(text, audio, FreshIds)
SubmitAnyId == \E text \in Texts, audio \in AudioFiles : SubmitJob(text, audio, AnyIds)
Poll == \E id \in JobIds : PollExists(id)

Work ==
    \E w \in Workers :
        \/ Dequeue(w)
        \/ SetProcessing(w)
        \/ ResolveText(w)
        \/ Infer(w)
        \/ CompletedStatus(w)
        \/ CompletedSetex(w)
        \/ CompletedAt(w)
        \/ FailedStatus(w)
        \/ FailedError(w)
        \/ FailedCompletedAt(w)

Rest ==
    \/ EnqueueExpire \/ EnqueueTask
    \/ Poll \/ PollNotFound \/ PollHgetall \/ PollGetResult
    \/ Work \/ Tick

\* uuid4 never repeats a value
Next == Submit \/ Rest
Spec == Init /\ [][Next]_vars

\* uuid4 may repeat a value
NextUuid == SubmitAnyId \/ Rest
SpecUuid == Init /\ [][NextUuid]_vars

\* workers may crash
NextCrash == Next \/ \E w \in Workers : Crash(w)
SpecCrash == Init /\ [][NextCrash]_vars

\* the submitter, the workers and the clock, with workers that keep working:
\* GET /result reads only and is left out
NextFair == Submit \/ EnqueueExpire \/ EnqueueTask \/ Work \/ Tick
SpecFair == Init /\ [][NextFair]_vars /\ WF_vars(Work)

\* Redis commands of enqueue_job may raise
NextRedisError ==
    \/ Next
    \/ \E text \in Texts, audio \in AudioFiles : EnqueueHsetRaises(text, audio)
    \/ EnqueueRaises
SpecRedisError == Init /\ [][NextRedisError]_vars

\* ================================================================ claims
Terminal == {"completed", "failed"}
Both(t, a) == truthy(t) /\ a # "None"
Neither(t, a) == ~truthy(t) /\ a = "None"
InQueue(id) == \E i \in 1 .. Len(queue) : queue[i] = id

\* C1: the statuses a poller is answered for a job, in the order the store
\* holds them, go pending, processing, then one of completed or failed: every
\* change of the status of a stored record is one of these steps.
AllowedStatusSteps ==
    { <<"none", "pending">>, <<"pending", "processing">>,
      <<"processing", "completed">>, <<"processing", "failed">> }
C1_StatusSequence ==
    [][\A id \in JobIds :
          (job[id].exists /\ job'[id].exists /\ job'[id].status # job[id].status)
              => <<job[id].status, job'[id].status>> \in AllowedStatusSteps]_vars

\* C2: whenever the stored status of a job is completed its result record
\* exists, and a poll that has read status completed answers with a
\* clinical_summary.
C2_CompletedHasResult ==
    /\ \A id \in JobIds :
          (job[id].exists /\ job[id].status = "completed") => result[id].exists
    /\ rd.pc = "get" => PollAnswer.clinical_summary # <<>>

\* C3: what a read of a job within its TTL returns: failed comes with an
\* error and no result, completed with a result and no error, pending and
\* processing with neither.
C3_PayloadMatchesStatus ==
    \A id \in JobIds :
        LET d == get_job_status(job, result, id) IN
          (d.found /\ job[id].ttl # <<>>) =>
            /\ d.status = "failed" => (d.error # <<>> /\ d.clinical_summary = <<>>)
            /\ d.status = "completed" => (d.clinical_summary # <<>> /\ d.error = <<>>)
            /\ d.status \in {"pending", "processing"}
                  => (d.error = <<>> /\ d.clinical_summary = <<>>)

\* C4: once the stored status of a job is completed or failed, no step
\* changes its status, error, completed_at or result while the record is
\* within its TTL.
C4_TerminalImmutable ==
    [][\A id \in JobIds :
          (job[id].exists /\ job[id].status \in Terminal /\ job[id].ttl # <<>>
             /\ job'[id].exists)
              => /\ job'[id].status = job[id].status
                 /\ job'[id].error = job[id].error
                 /\ job'[id].completed_at = job[id].completed_at
                 /\ (result'[id].exists => result'[id] = result[id])]_vars

\* C5: no two workers hold the same job id, process_clinical_job is started
\* at most once per job, and no job receives more than one completed/failed
\* status write.
C5_ExactlyOnce ==
    /\ \A v, w \in Workers : (v # w /\ wk[v].job_id # 0) => wk[v].job_id # wk[w].job_id
    /\ \A id \in JobIds : runs[id] <= 1 /\ term_writes[id] <= 1

\* C6: when process_clinical_job ends for a job whose inference returned R
\* (and whose record has not expired), the job reads completed with
\* clinical_summary = R.
C6_ResultRoundTrip ==
    [][\A w \in Workers :
          (wk[w].summary # <<>> /\ wk'[w].pc = "idle" /\ job'[wk[w].job_id].ttl # <<>>)
              => LET d == get_job_status(job', result', wk[w].job_id) IN
                   d.status = "completed" /\ d.clinical_summary = wk[w].summary]_vars

C8_IdsNeverReissued == \A id \in JobIds : issued[id] <= 1

\* C9 as claimed: a submission with both text and audio is answered 400 and
\* writes nothing.
C9_BothRejected ==
    [][\A t \in Texts, a \in AudioFiles :
          (Both(t, a) /\ SubmitJob(t, a, FreshIds))
              => (sub'.resp = "400" /\ UNCHANGED <<job, result, queue, generated>>)]_vars
\* C9 as amended: a submission with both text and audio is accepted: the
\* record is written pending with both its text and its audio_filename, and
\* enqueue_job then enqueues the id and returns it.
C9_BothAccepted ==
    [][/\ \A t \in Texts, a \in AudioFiles :
            (Both(t, a) /\ SubmitJob(t, a, FreshIds))
                => /\ sub'.pc = "expire"
                   /\ job'[sub'.job_id].status = "pending"
                   /\ job'[sub'.job_id].text = t
                   /\ job'[sub'.job_id].audio_filename = a
       /\ (EnqueueTask /\ Both(sub.text, sub.audio))
                => /\ queue' = Append(queue, sub.job_id)
                   /\ issued'[sub.job_id] = issued[sub.job_id] + 1
                   /\ sub'.resp = "200"]_vars
C9_Witness ==
    \E id \in JobIds :
        /\ issued[id] = 1 /\ InQueue(id)
        /\ job[id].exists /\ job[id].text # "" /\ job[id].audio_filename # ""

\* C10: a submission with neither text nor audio is answered 400 and leaves
\* the job keys, the result keys and the queue as they were.
C10_NeitherRejected ==
    [][\A t \in Texts, a \in AudioFiles :
          (Neither(t, a) /\ SubmitJob(t, a, FreshIds))
              => (sub'.resp = "400" /\ UNCHANGED <<job, result, queue>>)]_vars
C10_Witness == sub.resp = "400" /\ sub.pc = "idle"

\* C11: once the key of an id that enqueue_job generated is gone (its 24 h
\* have passed), no later operation brings it back: get_job_status of that
\* id stays not found.
C11_ExpiredStaysNotFound ==
    [][\A id \in JobIds :
          (generated[id] > 0 /\ ~get_job_status(job, result, id).found)
              => ~get_job_status(job', result', id).found]_vars

\* the stored error e contains the message m
Contains(e, m) == \E i \in DOMAIN e : e[i] = m
\* worker w leaves the except clause of process_clinical_job in this step
HandlerEnds(w) == wk[w].pc = "h_completed_at" /\ wk'[w].pc = "idle"

\* C12: when initialize_agent, transcribe_audio or process_clinical_text
\* raised an error with message m, the job record (still within its 24 h)
\* is left failed by process_clinical_job, with a non-empty error that
\* contains m.
C12_FailureRecorded ==
    [][\A w \in Workers :
          (HandlerEnds(w) /\ wk[w].exc \in ErrorMessages
                /\ job'[wk[w].job_id].ttl # <<>>)
              => /\ job'[wk[w].job_id].status = "failed"
                 /\ job'[wk[w].job_id].error # <<>>
                 /\ Contains(job'[wk[w].job_id].error, wk[w].exc)]_vars
C12_Witness ==
    \E id \in JobIds :
        /\ job[id].status = "failed" /\ job[id].ttl # <<>>
        /\ job[id].completed_at # <<>>
        /\ \E m \in ErrorMessages : Contains(job[id].error, m)

\* C13: a run of process_clinical_job in which a collaborator raised ends
\* without raising to RQ.
C13_NeverPropagates ==
    [][\A w \in Workers :
          (HandlerEnds(w) /\ wk[w].exc \in ErrorMessages)
              => rq_failed' = rq_failed]_vars
\* C13 as amended: the run records the failure on the job record (still
\* within its 24 h), then raises the exception to RQ, and the worker is free
\* for the next task.
C13_RecordedThenReraised ==
    [][\A w \in Workers :
          (HandlerEnds(w) /\ wk[w].exc \in ErrorMessages)
              => /\ wk[w].job_id \in rq_failed'
                 /\ wk'[w] = IdleWorker
                 /\ job'[wk[w].job_id].ttl # <<>>
                      => /\ job'[wk[w].job_id].status = "failed"
                         /\ job'[wk[w].job_id].error = error_message(wk[w].exc)]_vars
C13_Witness ==
    \E id \in rq_failed :
        /\ \E m \in ErrorMessages : Contains(job[id].error, m)
        /\ \E w \in Workers : wk[w].pc = "set_processing" /\ wk[w].job_id # id

\* C14: on a job record within its 24 h, update_job_status changes nothing
\* when the transition asked for is not one of pending -> processing ->
\* {completed, failed} (so a terminal record never changes), and a status
\* that does change is stored in the same step as its result or error.
C14_GuardedAtomicUpdate ==
    [][\A id \in JobIds :
          (job[id].ttl # <<>> /\ job'[id].ttl # <<>>)
              => /\ job[id].status \in Terminal => job'[id] = job[id]
                 /\ job'[id].status # job[id].status
                      => /\ <<job[id].status, job'[id].status>> \in AllowedStatusSteps
                         /\ job'[id].status = "completed" => result'[id].exists
                         /\ job'[id].status = "failed" => job'[id].error # <<>>]_vars

\* C15: on a job record within its 24 h, completed_at is there exactly when
\* the status is completed or failed, and once written it never changes.
C15_CompletedAtOnce ==
    [][\A id \in JobIds :
          job'[id].ttl # <<>>
              => /\ (job'[id].completed_at # <<>>) <=> (job'[id].status \in Terminal)
                 /\ job[id].completed_at # <<>>
                      => job'[id].completed_at = job[id].completed_at]_vars

\* C16: a result key exists only while its job key does, and expires no
\* later than 24 h after the job's created_at.
C16_ResultWithinJobTTL ==
    \A id \in JobIds :
        result[id].exists
            => /\ job[id].exists /\ job[id].created_at # <<>>
               /\ result[id].ttl # <<>>
               /\ result[id].ttl[1] <= job[id].created_at[1] + TTL_HOURS
\* C16 as amended: the result key carries its own 24 h, counted from the
\* moment SETEX stores it: it is stored with expiry now + 24 h and never
\* exists at or after that expiry.
C16_ResultOwnTTL ==
    [][\A id \in JobIds :
          result'[id].exists
              => /\ result'[id].ttl # <<>>
                 /\ now' < result'[id].ttl[1]
                 /\ result'[id] # result[id]
                      => result'[id].ttl = <<now + TTL_HOURS>>]_vars
\* a result key that has outlived its job key
C16_Witness ==
    \E id \in JobIds :
        /\ result[id].exists /\ ~job[id].exists
        /\ generated[id] > 0 /\ now < result[id].ttl[1]

\* C17: a write of update_job_status on an existing job record leaves the
\* key's expiry as it was, and the expiry of a record that has one is its
\* created_at + 24 h.
C17_UpdatesKeepExpiry ==
    [][\A id \in JobIds :
          (wk' # wk /\ job[id].exists /\ job'[id] # job[id])
              => /\ job'[id].exists
                 /\ job'[id].ttl = job[id].ttl
                 /\ job[id].ttl # <<>>
                      => job'[id].ttl = <<job'[id].created_at[1] + TTL_HOURS>>]_vars
C17_Witness ==
    \E id \in JobIds :
        /\ job[id].status \in Terminal /\ job[id].completed_at # <<>>
        /\ job[id].created_at # <<>>
        /\ job[id].ttl = <<job[id].created_at[1] + TTL_HOURS>>
        /\ job[id].completed_at[1] > job[id].created_at[1]

\* C18: no step of GET /result/{job_id} (get_result and the get_job_status
\* it calls) changes a job key, a result key or the queue.
C18_QueryReadOnly ==
    [][rd' # rd => UNCHANGED <<job, result, queue>>]_vars
C18_Witness == rd.pc = "get" /\ result[rd.job_id].exists

\* C19: an id that enqueue_job never generated is answered not found, by
\* get_job_status in every state and by the poll in progress on it.
C19_NeverIssuedNotFound ==
    \A id \in JobIds :
        generated[id] = 0
            => /\ ~ResultResponse(get_job_status(job, result, id)).found
               /\ (rd.pc # "idle" /\ rd.job_id = id) => ~PollAnswer.found
C19_Witness == rd.pc = "notfound" /\ generated[rd.job_id] = 0

\* C20: a run of process_clinical_job whose get_job_status found nothing
\* writes no job key and no result key.
C20_NotFoundIsNoOp ==
    [][\A w \in Workers :
          (wk[w].exc = "Trabajo no encontrado" /\ wk'[w] # wk[w])
              => UNCHANGED <<job, result>>]_vars

\* C21: process_clinical_text is called at most once for each id; a run in
\* which an exception was raised (by transcription or anything else) never
\* calls it afterwards; and an id whose record is failed is not in the queue
\* and is not executed again.
C21_NothingRetried ==
    [][/\ \A id \in JobIds :
            /\ infer_calls'[id] <= 1
            /\ (job[id].exists /\ job[id].status = "failed")
                  => /\ runs'[id] = runs[id]
                     /\ ~\E i \in DOMAIN queue' : queue'[i] = id
       /\ \A w \in Workers :
            wk[w].exc # ""
                => /\ wk'[w].pc # "infer"
                   /\ infer_calls'[wk[w].job_id] = infer_calls[wk[w].job_id]]_vars
C21_Witness ==
    \E id \in JobIds :
        /\ infer_calls[id] = 1 /\ runs[id] = 1 /\ id \in rq_failed
        /\ job[id].status = "failed" /\ job[id].completed_at # <<>>
        /\ \A w \in Workers : wk[w].pc = "idle"

\* worker w gets from resolving its text to calling process_clinical_text
StartsInference(w) == wk[w].pc = "resolve" /\ wk'[w].pc = "infer"

Orphaned(id) ==
    /\ job[id].exists /\ job[id].status = "processing"
    /\ \A w \in Workers : wk[w].job_id # id

\* C23: a record left processing by a worker that crashed stays as it is,
\* with no worker taking the task again, until the key expires.
C23_CrashedStaysProcessing ==
    [][\A id \in JobIds :
          Orphaned(id)
              => \/ job'[id] = job[id] /\ \A w \in Workers : wk'[w].job_id # id
                 \/ ~job'[id].exists /\ now' >= job[id].ttl[1]]_vars
\* an orphaned record, half a day after the crash
C23_Witness ==
    \E id \in JobIds :
        /\ Orphaned(id) /\ runs[id] = 1 /\ job[id].ttl # <<>>
        /\ now > job[id].created_at[1]

\* what GET /result/{id} would answer in the current state
Answer(id) == ResultResponse(get_job_status(job, result, id))

\* C24: a job created and left processing within the current instant is
\* within its 300 s; once a clock step longer than 300 s has passed over it
\* and it is still processing, GET /result/{id} answers differently from
\* before (the stuck job is flagged).
C24_StuckIsFlagged ==
    [][\A id \in JobIds :
          (/\ Orphaned(id) /\ job[id].created_at = <<now>>
           /\ (now' - now) * 3600 > JOB_TIMEOUT
           /\ job'[id].exists /\ job'[id].status = "processing")
              => Answer(id)' # Answer(id)]_vars

\* C25: a step of process_clinical_job (its update_job_status calls
\* included) leaves job_id, created_at, text, audio_filename and audio_url
\* of every record as they were, and changes no field of the job key or the
\* result key of any id but its own.
C25_WorkerWritesFrame ==
    [][\A w \in Workers :
          wk'[w] # wk[w]
              => \A id \in JobIds :
                    /\ job'[id].job_id = job[id].job_id
                    /\ job'[id].created_at = job[id].created_at
                    /\ job'[id].text = job[id].text
                    /\ job'[id].audio_filename = job[id].audio_filename
                    /\ job'[id].audio_url = job[id].audio_url
                    /\ id # wk[w].job_id
                          => job'[id] = job[id] /\ result'[id] = result[id]]_vars
C25_Witness ==
    \E id, other \in JobIds :
        /\ id # other /\ job[other].status = "pending"
        /\ job[id].status \in Terminal /\ job[id].completed_at # <<>>
        /\ job[id].job_id = id /\ job[id].created_at # <<>>
        /\ job[id].text # "" /\ job[id].audio_filename # ""

\* C26: when workers keep taking steps, every id that enqueue_job has put
\* on the queue eventually has a record that is completed or failed, or no
\* record; and from some point on its record is never again pending or
\* processing.
C26_EventuallyTerminal ==
    \A id \in JobIds :
        /\ InQueue(id) ~> (~job[id].exists \/ job[id].status \in Terminal)
        /\ <>[](issued[id] > 0
                  => ~(job[id].exists /\ job[id].status \in {"pending", "processing"}))
C26_Witness ==
    \E id \in JobIds :
        /\ issued[id] > 0 /\ runs[id] = 1 /\ ~InQueue(id)
        /\ job[id].status \in Terminal /\ job[id].ttl # <<>>
        /\ \A w \in Workers : wk[w].job_id # id

\* C27: a run whose resolved text is empty goes to the except clause with
\* its ValueError and never calls process_clinical_text (which is only ever
\* called on a non-empty text); it leaves the record (still within its
\* 24 h) failed with a non-empty error.
C27_EmptyTextNeverInferred ==
    [][\A w \in Workers :
          /\ (wk[w].pc = "resolve" /\ wk'[w].pc # "resolve" /\ wk'[w].text = "")
                => /\ wk'[w].pc = "h_status" /\ wk'[w].exc # ""
                   /\ infer_calls' = infer_calls
          /\ wk'[w].pc = "infer" => wk'[w].text # ""
          /\ (/\ HandlerEnds(w)
              /\ wk[w].exc = "No se proporciono texto ni audio valido"
              /\ job'[wk[w].job_id].ttl # <<>>)
                => /\ infer_calls[wk[w].job_id] = 0
                   /\ job'[wk[w].job_id].status = "failed"
                   /\ job'[wk[w].job_id].error # <<>>]_vars
C27_Witness ==
    \E id \in JobIds :
        /\ job[id].status = "failed" /\ job[id].ttl # <<>>
        /\ job[id].text = "" /\ job[id].audio_filename # ""
        /\ Contains(job[id].error, "No se proporciono texto ni audio valido")
        /\ infer_calls[id] = 0 /\ id \in rq_failed

\* enqueue_job is between its commands on id
InEnqueue(id) == sub.pc # "idle" /\ sub.job_id = id

\* C28: outside a call of enqueue_job in progress, every pending record has
\* its task in the queue or in a worker's hands (a call that raised left no
\* record behind).
C28_PendingHasTask ==
    \A id \in JobIds :
        (job[id].exists /\ job[id].status = "pending" /\ ~InEnqueue(id))
            => (InQueue(id) \/ \E w \in Workers : wk[w].job_id = id)

\* C29: outside a call of enqueue_job in progress, every job key that
\* exists has an expiry.
C29_EveryKeyExpires ==
    \A id \in JobIds :
        (job[id].exists /\ ~InEnqueue(id)) => job[id].ttl # <<>>

====
